---- MODULE Spec2Model ----
(***************************************************************************)
(* A model of app_meshed: the FunctionRegistry                              *)
(* (services/function_registry.py), the DAGService builder and executor    *)
(* (services/dag_service.py), the validate and execute endpoints           *)
(* (api/main.py) and the schema generator (services/schema_service.py).    *)
(*                                                                         *)
(* Python dicts are modelled as sequences of <<key, value>> pairs with     *)
(* unique keys, in insertion order.  Formatted messages are modelled as    *)
(* tuples of their literal and interpolated parts.                         *)
(*                                                                         *)
(* meshed.DAG is a third-party class whose code is not part of the         *)
(* repository.  json_to_dag hands it `funcs` and `binds` and either gets   *)
(* an object back or catches an exception; the model leaves that outcome   *)
(* open (DAGOutcomes) and records only what json_to_dag passed in.         *)
(***************************************************************************)
EXTENDS Integers, Sequences, FiniteSets, TLC

VARIABLES
    functions,  \* FunctionRegistry._functions : name -> callable
    metadata,   \* FunctionRegistry._metadata  : name -> FunctionMetadata
    call,       \* the last operation called, its arguments and its outcome
    kept_dag,   \* the graph the caller keeps from an earlier json_to_dag
    requests    \* the execute_from_config calls in progress, with their locals

vars == <<functions, metadata, call, kept_dag, requests>>

----------------------------------------------------------------------------
(* Bounds of the model *)

MaxNodes == 2
MaxEdges == 1
MaxBindEdges == 2
MaxParams == 2

----------------------------------------------------------------------------
(* Values *)

None == "None"

NodeIds == {"n1", "n2"}
FuncNames == {"add", "multiply"}
Callables == {"f_add", "f_mul"}
PortNames == {"sum"}
ParamNames == {"a"}
DagNames == {"my_dag"}

\* what the constructor call DAG(funcs, **binds) can do: return or raise
DAGOutcomes == {"returns", "raises"}

----------------------------------------------------------------------------
(* Python dict, as a sequence of <<key, value>> pairs *)

EmptyDict == <<>>

DictKeys(d) == {d[i][1] : i \in 1..Len(d)}

DictHas(d, k) == \E i \in 1..Len(d) : d[i][1] = k

DictGet(d, k) == d[CHOOSE i \in 1..Len(d) : d[i][1] = k][2]

\* d[k] = v : an existing key keeps its position, a new key is appended
DictSet(d, k, v) ==
    IF DictHas(d, k)
    THEN [i \in 1..Len(d) |-> IF d[i][1] = k THEN <<k, v>> ELSE d[i]]
    ELSE Append(d, <<k, v>>)

\* del d[k]
DictDel(d, k) == SelectSeq(d, LAMBDA e : e[1] # k)

----------------------------------------------------------------------------
(* Results: a returned value or a raised exception *)

NoGraph == [funcs |-> EmptyDict, binds |-> EmptyDict]

Returned(g, looked) ==
    [kind |-> "returned", msg |-> <<>>, graph |-> g, lookups |-> looked]

Raised(exc, m, looked) ==
    [kind |-> exc, msg |-> m, graph |-> NoGraph, lookups |-> looked]

----------------------------------------------------------------------------
(* FunctionRegistry *)

AlreadyRegisteredMsg(name) ==
    <<"Function '", name, "' already registered. Use override=True to replace.">>

RegistryNotFoundMsg(name) == <<"Function '", name, "' not found in registry">>

\* FunctionRegistry._extract_metadata: the metadata describes `func` under `name`
ExtractMetadata(name, func) == [name |-> name, func |-> func]

\* get_function written as a dict.get: a missing name yields None, no KeyError
GetFunctionNoKeyError(fns, name) ==
    [kind |-> "returned", msg |-> <<>>, graph |-> NoGraph, lookups |-> <<name>>,
     value |-> IF DictHas(fns, name) THEN DictGet(fns, name) ELSE None]

\* FunctionRegistry.get_function
GetFunction(fns, name) ==
    IF ~DictHas(fns, name)
    THEN Raised("KeyError", RegistryNotFoundMsg(name), <<name>>)
    ELSE [kind |-> "returned", msg |-> <<>>, graph |-> NoGraph,
          lookups |-> <<name>>, value |-> DictGet(fns, name)]

\* FunctionRegistry.get_metadata
GetMetadata(meta, name) ==
    IF ~DictHas(meta, name)
    THEN Raised("KeyError", RegistryNotFoundMsg(name), <<name>>)
    ELSE [kind |-> "returned", msg |-> <<>>, graph |-> NoGraph,
          lookups |-> <<name>>, value |-> DictGet(meta, name)]

\* FunctionRegistry.list_functions: list(self._functions.keys())
ListFunctions(fns) == [i \in 1..Len(fns) |-> fns[i][1]]

\* FunctionRegistry.get_all_metadata: one entry per entry of _metadata
GetAllMetadata(meta) == [i \in 1..Len(meta) |-> <<meta[i][1], meta[i][2]>>]

\* objects for which _extract_metadata raises (Sig(func) finds no signature)
Unsigned == {"f_nosig"}

ExtractFailedMsg == <<"str(e)">>

\* register that replaces an existing registration whatever override says
RegisterCallNoDuplicateCheck(fns, meta, name, func, override) ==
    IF func \in Unsigned
    THEN [functions |-> DictSet(fns, name, func), metadata |-> meta,
          result |-> Raised("Exception", ExtractFailedMsg, <<>>)]
    ELSE [functions |-> DictSet(fns, name, func),
          metadata |-> DictSet(meta, name, ExtractMetadata(name, func)),
          result |-> Returned(NoGraph, <<>>)]

\* FunctionRegistry.register(name, func, override=override): the two tables
\* after the call and its outcome.  The function is stored (line 98) before
\* its metadata is extracted (line 101).
RegisterCall(fns, meta, name, func, override) ==
    IF DictHas(fns, name) /\ ~override
    THEN [functions |-> fns, metadata |-> meta,
          result |-> Raised("ValueError", AlreadyRegisteredMsg(name), <<>>)]
    ELSE IF func \in Unsigned
         THEN [functions |-> DictSet(fns, name, func), metadata |-> meta,
               result |-> Raised("Exception", ExtractFailedMsg, <<>>)]
         ELSE [functions |-> DictSet(fns, name, func),
               metadata |-> DictSet(meta, name, ExtractMetadata(name, func)),
               result |-> Returned(NoGraph, <<>>)]

\* unregister that forgets the function and keeps its metadata
UnregisterCallKeepsMetadata(fns, meta, name) ==
    IF ~DictHas(fns, name)
    THEN [functions |-> fns, metadata |-> meta,
          result |-> Raised("KeyError", RegistryNotFoundMsg(name), <<>>)]
    ELSE [functions |-> DictDel(fns, name), metadata |-> meta,
          result |-> Returned(NoGraph, <<>>)]

\* FunctionRegistry.unregister(name): del self._functions[name], then
\* del self._metadata[name], which raises KeyError(name) on a missing key.
UnregisterCall(fns, meta, name) ==
    IF ~DictHas(fns, name)
    THEN [functions |-> fns, metadata |-> meta,
          result |-> Raised("KeyError", RegistryNotFoundMsg(name), <<>>)]
    ELSE IF ~DictHas(meta, name)
         THEN [functions |-> DictDel(fns, name), metadata |-> meta,
               result |-> Raised("KeyError", <<name>>, <<>>)]
         ELSE [functions |-> DictDel(fns, name), metadata |-> DictDel(meta, name),
               result |-> Returned(NoGraph, <<>>)]

----------------------------------------------------------------------------
(* Graph descriptions *)

NodeEntries == [id : NodeIds, function : FuncNames]

EdgeEntries ==
    [source : NodeIds, target : NodeIds,
     sourceOutput : PortNames \cup {None}, targetInput : ParamNames \cup {None}]

SeqsUpTo(S, n) == UNION {[1..k -> S] : k \in 0..n}

\* params: node id -> literal overrides
ParamsValues == {EmptyDict, <<<<"n1", <<<<"a", 5>>>>>>>>}

\* has_nodes = FALSE: the description has no "nodes" key
Configs ==
    {c \in [name : DagNames \cup {None},
            has_nodes : BOOLEAN,
            nodes : SeqsUpTo(NodeEntries, MaxNodes),
            edges : SeqsUpTo(EdgeEntries, MaxEdges),
            params : ParamsValues] :
        ~c.has_nodes => c.nodes = <<>>}

NoConfig ==
    [name |-> None, has_nodes |-> FALSE, nodes |-> <<>>, edges |-> <<>>,
     params |-> EmptyDict]

----------------------------------------------------------------------------
(* DAGService.json_to_dag *)

EmptyGraphMsg == <<"DAG must have at least one node">>

FunctionNotFoundMsg(func_name, node_id) ==
    <<"Function '", func_name, "' not found in registry for node '", node_id, "'">>

ErrorCreatingMsg == <<"Error creating DAG: ", "str(e)">>

\* dag_config.get("nodes", [])
ConfigNodes(dag_config) ==
    IF dag_config.has_nodes THEN dag_config.nodes ELSE <<>>

\* The loop over nodes (lines 82-93), from entry i on: the function map and
\* the registry lookups made, or the ValueError of the first unresolved name.
RECURSIVE BuildFuncs(_, _, _, _, _)
BuildFuncs(fns, nodes, i, funcs, looked) ==
    IF i > Len(nodes)
    THEN Returned([funcs |-> funcs, binds |-> EmptyDict], looked)
    ELSE LET node_id == nodes[i].id
             func_name == nodes[i].function
             got == GetFunction(fns, func_name)
         IN  IF got.kind = "KeyError"
             THEN Raised("ValueError", FunctionNotFoundMsg(func_name, node_id),
                         Append(looked, func_name))
             ELSE BuildFuncs(fns, nodes, i + 1,
                             DictSet(funcs, node_id, got.value),
                             Append(looked, func_name))

\* the fallback chain the wrong way round: sourceOutput before targetInput
TargetInputSourceFirst(edge) ==
    IF edge.sourceOutput # None THEN edge.sourceOutput
    ELSE IF edge.targetInput # None THEN edge.targetInput
    ELSE "value"

\* edge.get("targetInput", edge.get("sourceOutput", "value"))
TargetInput(edge) ==
    IF edge.targetInput # None THEN edge.targetInput
    ELSE IF edge.sourceOutput # None THEN edge.sourceOutput
    ELSE "value"

\* the loop over edges with setdefault: the first edge of a target and
\* parameter stays, later ones are dropped
RECURSIVE BuildBindsFirstWins(_, _, _)
BuildBindsFirstWins(edges, i, binds) ==
    IF i > Len(edges)
    THEN binds
    ELSE LET source == edges[i].source
             target == edges[i].target
             target_input == TargetInput(edges[i])
             binds1 == IF ~DictHas(binds, target)
                       THEN DictSet(binds, target, EmptyDict)
                       ELSE binds
         IN  IF DictHas(DictGet(binds1, target), target_input)
             THEN BuildBindsFirstWins(edges, i + 1, binds1)
             ELSE BuildBindsFirstWins(edges, i + 1,
                        DictSet(binds1, target,
                                DictSet(DictGet(binds1, target), target_input, source)))

\* The loop over edges (lines 97-106): {target_node: {target_param: source_node}}
RECURSIVE BuildBinds(_, _, _)
BuildBinds(edges, i, binds) ==
    IF i > Len(edges)
    THEN binds
    ELSE LET source == edges[i].source
             target == edges[i].target
             target_input == TargetInput(edges[i])
             binds1 == IF ~DictHas(binds, target)
                       THEN DictSet(binds, target, EmptyDict)
                       ELSE binds
         IN  BuildBinds(edges, i + 1,
                        DictSet(binds1, target,
                                DictSet(DictGet(binds1, target), target_input, source)))

\* a lookup that takes the function out of the table (dict.pop) instead of
\* reading it
RegistryAfterBuildPops(fns, dag_config) ==
    IF ConfigNodes(dag_config) = <<>>
    THEN fns
    ELSE DictDel(fns, ConfigNodes(dag_config)[1].function)

\* The registry's function table after json_to_dag(dag_config): the build
\* touches the registry through get_function alone, which reads it.
RegistryAfterBuild(fns, dag_config) == fns

\* json_to_dag without the `if not nodes` check of line 78
JsonToDagNoEmptyCheck(fns, dag_config, dag_outcome) ==
    LET built == BuildFuncs(fns, ConfigNodes(dag_config), 1, EmptyDict, <<>>)
    IN  IF built.kind # "returned"
        THEN built
        ELSE IF dag_outcome = "raises"
             THEN Raised("ValueError", ErrorCreatingMsg, built.lookups)
             ELSE Returned([funcs |-> built.graph.funcs,
                            binds |-> BuildBinds(dag_config.edges, 1, EmptyDict)],
                           built.lookups)

\* json_to_dag that enforces params: the literal overrides of each node are
\* handed to DAG next to the bindings of the edges
JsonToDagParamsApplied(fns, dag_config, dag_outcome) ==
    LET nodes == ConfigNodes(dag_config)
        edges == dag_config.edges
        params == dag_config.params
    IN  IF nodes = <<>>
        THEN Raised("ValueError", EmptyGraphMsg, <<>>)
        ELSE LET built == BuildFuncs(fns, nodes, 1, EmptyDict, <<>>)
             IN  IF built.kind # "returned"
                 THEN built
                 ELSE IF dag_outcome = "raises"
                      THEN Raised("ValueError", ErrorCreatingMsg, built.lookups)
                      ELSE Returned([funcs |-> built.graph.funcs,
                                     binds |-> BuildBinds(edges, 1, EmptyDict)
                                               \o params],
                                    built.lookups)

\* json_to_dag(dag_config) against the registry's function table `fns`;
\* `dag_outcome` is what DAG(funcs, **binds) does when it is reached.
JsonToDag(fns, dag_config, dag_outcome) ==
    LET nodes == ConfigNodes(dag_config)
        edges == dag_config.edges
    IN  IF nodes = <<>>
        THEN Raised("ValueError", EmptyGraphMsg, <<>>)
        ELSE LET built == BuildFuncs(fns, nodes, 1, EmptyDict, <<>>)
             IN  IF built.kind # "returned"
                 THEN built
                 ELSE IF dag_outcome = "raises"
                      THEN Raised("ValueError", ErrorCreatingMsg, built.lookups)
                      ELSE Returned([funcs |-> built.graph.funcs,
                                     binds |-> BuildBinds(edges, 1, EmptyDict)],
                                    built.lookups)

----------------------------------------------------------------------------
(* DAGService.execute_dag, DAGService.execute_from_config, api validate_dag *)

\* what the call dag(**inputs) can do: return a value or raise an Exception
CallOutcomes == {"returns", "raises"}

\* the value dag(**inputs) returns
DagValue == "dag(**inputs)"

\* external inputs of an execution
InputsValues == {EmptyDict, <<<<"a", 5>>, <<"b", 3>>>>}

ExecutionFailedMsg == <<"DAG execution failed: ", "str(e)">>

\* execute_dag(dag, inputs): the value of dag(**inputs), or RuntimeError;
\* dag_calls counts the calls of the graph.
ExecuteDag(dag, inputs, call_outcome) ==
    IF call_outcome = "raises"
    THEN [kind |-> "RuntimeError", msg |-> ExecutionFailedMsg, value |-> None,
          dag_calls |-> 1]
    ELSE [kind |-> "returned", msg |-> <<>>, value |-> DagValue, dag_calls |-> 1]

\* dag_config.get("name", "unnamed")
DagName(dag_config) ==
    IF dag_config.name = None THEN "unnamed" ELSE dag_config.name

NoResponse ==
    [kind |-> "returned", keys |-> {}, status |-> None, result |-> None,
     error |-> <<>>, dag_name |-> None, dag_calls |-> 0]

\* a returned dict: its keys and their values
Response(keys, status, result, error, dag_name, dag_calls) ==
    [kind |-> "returned", keys |-> keys, status |-> status, result |-> result,
     error |-> error, dag_name |-> dag_name, dag_calls |-> dag_calls]

\* execute_from_config without its try/except: exceptions reach the caller
ExecuteFromConfigNoCatch(fns, dag_config, inputs, dag_outcome, call_outcome) ==
    LET built == JsonToDag(fns, dag_config, dag_outcome)
        ran == ExecuteDag(built.graph, inputs, call_outcome)
    IN  IF built.kind # "returned"
        THEN [NoResponse EXCEPT !.kind = built.kind, !.error = built.msg]
        ELSE IF ran.kind # "returned"
             THEN [NoResponse EXCEPT !.kind = ran.kind, !.error = ran.msg,
                                     !.dag_calls = ran.dag_calls]
             ELSE Response({"status", "result", "dag_name"}, "success", ran.value,
                           <<>>, DagName(dag_config), ran.dag_calls)

\* execute_from_config(dag_config, inputs)
ExecuteFromConfig(fns, dag_config, inputs, dag_outcome, call_outcome) ==
    LET built == JsonToDag(fns, dag_config, dag_outcome)
        ran == ExecuteDag(built.graph, inputs, call_outcome)
    IN  IF built.kind # "returned"
        THEN Response({"status", "error", "dag_name"}, "error", None,
                      built.msg, DagName(dag_config), 0)
        ELSE IF ran.kind # "returned"
             THEN Response({"status", "error", "dag_name"}, "error", None,
                           ran.msg, DagName(dag_config), ran.dag_calls)
             ELSE Response({"status", "result", "dag_name"}, "success", ran.value,
                           <<>>, DagName(dag_config), ran.dag_calls)

\* validate_dag that also runs the graph it built
ValidateDagExecutes(fns, dag_config, dag_outcome) ==
    LET built == JsonToDag(fns, dag_config, dag_outcome)
    IN  IF built.kind # "returned"
        THEN Response({"status", "error", "dag_name"}, "invalid", None,
                      built.msg, DagName(dag_config), 0)
        ELSE Response({"status", "dag_name", "message"}, "valid", None,
                      <<>>, DagName(dag_config), 1)

\* api.main.validate_dag(dag_config)
ValidateDag(fns, dag_config, dag_outcome) ==
    LET built == JsonToDag(fns, dag_config, dag_outcome)
    IN  IF built.kind # "returned"
        THEN Response({"status", "error", "dag_name"}, "invalid", None,
                      built.msg, DagName(dag_config), 0)
        ELSE Response({"status", "dag_name", "message"}, "valid", None,
                      <<>>, DagName(dag_config), 0)

\* descriptions for the execution and validation paths
SimpleEdges == {e \in EdgeEntries : e.sourceOutput = None /\ e.targetInput # None}

ExecConfigs ==
    {c \in [name : DagNames \cup {None},
            has_nodes : BOOLEAN,
            nodes : SeqsUpTo(NodeEntries, MaxNodes),
            edges : SeqsUpTo(SimpleEdges, MaxEdges),
            params : {EmptyDict}] :
        ~c.has_nodes => c.nodes = <<>>}

----------------------------------------------------------------------------
(* The state machine *)

NoCall ==
    [op |-> "none", name |-> None, func |-> None, override |-> FALSE,
     dag_config |-> NoConfig, dag_outcome |-> None,
     inputs |-> EmptyDict, call_outcome |-> None,
     result |-> Returned(NoGraph, <<>>), response |-> NoResponse]

\* no graph kept
NoDag == [graph |-> NoGraph, nodes |-> <<>>, fns |-> EmptyDict]

\* callers of the service that run at the same time
ReqIds == {"r1", "r2"}

\* no call dag(**inputs) made
NoDagCall == [dag |-> NoGraph, inputs |-> EmptyDict, made |-> FALSE]

\* a caller that is not inside execute_from_config
NoRequest ==
    [pc |-> "idle", dag_config |-> NoConfig, inputs |-> EmptyDict,
     dag_outcome |-> None, call_outcome |-> None,
     dag |-> Returned(NoGraph, <<>>), called |-> NoDagCall,
     response |-> NoResponse]

NoRequests == [r \in ReqIds |-> NoRequest]

\* The registry of the test fixture: add and multiply registered.
Init ==
    /\ functions = <<<<"add", "f_add">>, <<"multiply", "f_mul">>>>
    /\ metadata = <<<<"add", ExtractMetadata("add", "f_add")>>,
                    <<"multiply", ExtractMetadata("multiply", "f_mul")>>>>
    /\ call = NoCall
    /\ kept_dag = NoDag
    /\ requests = NoRequests

\* The single-threaded caller is between two calls.
Idle == call.op = "none"

\* The caller takes the outcome of the call it made and goes on.
Return ==
    /\ ~Idle
    /\ UNCHANGED <<kept_dag, requests>>
    /\ call' = NoCall
    /\ UNCHANGED <<functions, metadata>>

\* FunctionRegistry.register(name, func, override=override)
Register ==
    /\ Idle
    /\ UNCHANGED <<kept_dag, requests>>
    /\ \E name \in FuncNames, func \in Callables, override \in BOOLEAN :
        LET done == RegisterCall(functions, metadata, name, func, override)
        IN  /\ functions' = done.functions
            /\ metadata' = done.metadata
            /\ call' = [NoCall EXCEPT !.op = "register", !.name = name,
                                      !.func = func, !.override = override,
                                      !.result = done.result]

\* FunctionRegistry.unregister(name)
Unregister ==
    /\ Idle
    /\ UNCHANGED <<kept_dag, requests>>
    /\ \E name \in FuncNames :
        LET done == UnregisterCall(functions, metadata, name)
        IN  /\ functions' = done.functions
            /\ metadata' = done.metadata
            /\ call' = [NoCall EXCEPT !.op = "unregister", !.name = name,
                                      !.result = done.result]

\* DAGService.json_to_dag(dag_config)
Build ==
    /\ Idle
    /\ UNCHANGED <<kept_dag, requests>>
    /\ \E dag_config \in Configs, dag_outcome \in DAGOutcomes :
        /\ call' = [NoCall EXCEPT !.op = "json_to_dag",
                                  !.dag_config = dag_config,
                                  !.dag_outcome = dag_outcome,
                                  !.result = JsonToDag(functions, dag_config, dag_outcome)]
        /\ functions' = RegistryAfterBuild(functions, dag_config)
        /\ UNCHANGED metadata

Next == Register \/ Unregister \/ Build \/ Return

Spec == Init /\ [][Next]_vars

\* descriptions of the graphs a caller keeps: nodes only
KeptConfigs ==
    {c \in Configs : c.has_nodes /\ c.edges = <<>> /\ c.name = None
                     /\ c.params = EmptyDict}

\* DAGService.json_to_dag(dag_config), by a caller that holds no graph yet
BuildToKeep ==
    /\ Idle
    /\ kept_dag = NoDag
    /\ UNCHANGED <<kept_dag, requests>>
    /\ \E dag_config \in KeptConfigs, dag_outcome \in DAGOutcomes :
        /\ call' = [NoCall EXCEPT !.op = "json_to_dag",
                                  !.dag_config = dag_config,
                                  !.dag_outcome = dag_outcome,
                                  !.result = JsonToDag(functions, dag_config, dag_outcome)]
        /\ functions' = RegistryAfterBuild(functions, dag_config)
        /\ UNCHANGED metadata

\* The caller keeps the graph json_to_dag returned (dag = json_to_dag(...));
\* nodes and fns remember the description and the registry it was built from.
Keep ==
    /\ call.op = "json_to_dag"
    /\ call.result.kind = "returned"
    /\ kept_dag' = [graph |-> call.result.graph,
               nodes |-> ConfigNodes(call.dag_config),
               fns |-> functions]
    /\ call' = NoCall
    /\ UNCHANGED <<functions, metadata, requests>>

NextKeep == Register \/ Unregister \/ BuildToKeep \/ Keep \/ Return

\* a caller that builds a graph, keeps it and goes on using the registry
SpecKeep == Init /\ [][NextKeep]_vars

\* the callable the node late-binds: looked up by name when it is asked for
NodeCallableByName(d, fns, node_id) ==
    LET i == CHOOSE k \in 1..Len(d.nodes) :
                /\ d.nodes[k].id = node_id
                /\ \A j \in (k + 1)..Len(d.nodes) : d.nodes[j].id # node_id
        func_name == d.nodes[i].function
    IN  IF DictHas(fns, func_name) THEN DictGet(fns, func_name) ELSE None

\* The callable node_id of the kept graph d invokes while the registry's
\* function table is fns: the function object json_to_dag put into funcs.
NodeCallable(d, fns, node_id) == DictGet(d.graph.funcs, node_id)

\* node entries that may carry the optional "output_name" key
OutputNames == {"out"}

NamedNodeEntries ==
    [id : NodeIds, function : FuncNames, output_name : OutputNames \cup {None}]

NamedConfigs ==
    [name : {None}, has_nodes : {TRUE},
     nodes : SeqsUpTo(NamedNodeEntries, MaxNodes),
     edges : {<<>>}, params : {EmptyDict}]

\* DAGService.json_to_dag(dag_config) on a description with output names
BuildNamed ==
    /\ Idle
    /\ UNCHANGED <<kept_dag, requests>>
    /\ \E dag_config \in NamedConfigs, dag_outcome \in DAGOutcomes :
        /\ call' = [NoCall EXCEPT !.op = "json_to_dag",
                                  !.dag_config = dag_config,
                                  !.dag_outcome = dag_outcome,
                                  !.result = JsonToDag(functions, dag_config, dag_outcome)]
        /\ functions' = RegistryAfterBuild(functions, dag_config)
        /\ UNCHANGED metadata

NextNamed == Register \/ Unregister \/ BuildNamed \/ Return

\* the registry and the builder, on descriptions with output names
SpecNamed == Init /\ [][NextNamed]_vars

\* every name and callable json_to_dag hands to DAG(funcs, **binds)
HandedOver(graph) ==
    UNION {{graph.funcs[i][1], graph.funcs[i][2]} : i \in 1..Len(graph.funcs)}
    \cup UNION {{graph.binds[i][1]}
                \cup UNION {{graph.binds[i][2][k][1], graph.binds[i][2][k][2]} :
                            k \in 1..Len(graph.binds[i][2])} :
                i \in 1..Len(graph.binds)}

\* DAGService.execute_from_config(dag_config, inputs)
Execute ==
    /\ Idle
    /\ UNCHANGED <<kept_dag, requests>>
    /\ \E dag_config \in ExecConfigs, inputs \in InputsValues,
          dag_outcome \in DAGOutcomes, call_outcome \in CallOutcomes :
        /\ call' = [NoCall EXCEPT
                       !.op = "execute_from_config",
                       !.dag_config = dag_config,
                       !.inputs = inputs,
                       !.dag_outcome = dag_outcome,
                       !.call_outcome = call_outcome,
                       !.result = JsonToDag(functions, dag_config, dag_outcome),
                       !.response = ExecuteFromConfig(functions, dag_config, inputs,
                                                      dag_outcome, call_outcome)]
        /\ UNCHANGED <<functions, metadata>>

\* POST /dag/validate
Validate ==
    /\ Idle
    /\ UNCHANGED <<kept_dag, requests>>
    /\ \E dag_config \in ExecConfigs, dag_outcome \in DAGOutcomes :
        /\ call' = [NoCall EXCEPT
                       !.op = "validate_dag",
                       !.dag_config = dag_config,
                       !.dag_outcome = dag_outcome,
                       !.result = JsonToDag(functions, dag_config, dag_outcome),
                       !.response = ValidateDag(functions, dag_config, dag_outcome)]
        /\ UNCHANGED <<functions, metadata>>

NextExec == Register \/ Unregister \/ Execute \/ Validate \/ Return

\* the registry, and the service's execution and validation entry points
SpecExec == Init /\ [][NextExec]_vars

----------------------------------------------------------------------------
(* Properties of json_to_dag *)

BuildCalled == call.op = "json_to_dag"

Resolvable(node) == DictHas(functions, node.function)

AllResolvable(nodes) == \A i \in 1..Len(nodes) : Resolvable(nodes[i])

\* C7: for a description with at least one node entry whose function names
\* are all registered, a graph handed over by the DAG constructor has exactly
\* as many nodes as the description has node entries, also when two entries
\* share an id.  (Stated for the builds in which DAG(funcs, **binds) returns,
\* so that a violation is one of json_to_dag's own making.)
C7_NodeCountEqualsEntries ==
    LET nodes == ConfigNodes(call.dag_config)
    IN  (/\ BuildCalled
         /\ nodes # <<>>
         /\ AllResolvable(nodes)
         /\ call.dag_outcome = "returns")
        => /\ call.result.kind = "returned"
           /\ Len(call.result.graph.funcs) = Len(nodes)

\* C8: json_to_dag on a description whose nodes sequence is empty or absent
\* raises ValueError "DAG must have at least one node", whatever name, edges
\* and params hold, without a single registry lookup and without a graph.
C8_EmptyNodesRejected ==
    (BuildCalled /\ ConfigNodes(call.dag_config) = <<>>)
    => /\ call.result.kind = "ValueError"
       /\ call.result.msg = <<"DAG must have at least one node">>
       /\ call.result.lookups = <<>>
       /\ call.result.graph = NoGraph

\* C8's case: an empty nodes list beside a name, an edge and params.
C8_Witness ==
    /\ BuildCalled
    /\ call.dag_config.has_nodes
    /\ call.dag_config.nodes = <<>>
    /\ call.dag_config.edges # <<>>
    /\ call.dag_config.params # EmptyDict
    /\ call.dag_config.name # None
    /\ call.result.kind = "ValueError"

\* C9: json_to_dag on a description in which some node names a function that
\* is not registered raises ValueError; the message says "not found in
\* registry" and carries the function name and the id of the first such
\* node, and no graph is returned.
C9_UnknownFunctionRejected ==
    LET nodes == ConfigNodes(call.dag_config)
    IN  (BuildCalled /\ ~AllResolvable(nodes))
        => LET i == CHOOSE k \in 1..Len(nodes) :
                        /\ ~Resolvable(nodes[k])
                        /\ \A j \in 1..(k - 1) : Resolvable(nodes[j])
               msg == call.result.msg
           IN  /\ call.result.kind = "ValueError"
               /\ call.result.graph = NoGraph
               /\ Len(msg) = 5
               /\ msg[2] = nodes[i].function
               /\ msg[3] = "' not found in registry for node '"
               /\ msg[4] = nodes[i].id

\* C9's case: the first node resolves, the second one names an unregistered
\* function, and the build has failed.
C9_Witness ==
    /\ BuildCalled
    /\ Len(call.dag_config.nodes) = 2
    /\ Resolvable(call.dag_config.nodes[1])
    /\ ~Resolvable(call.dag_config.nodes[2])
    /\ call.dag_config.nodes[1].id # call.dag_config.nodes[2].id
    /\ call.result.kind = "ValueError"
    /\ call.result.lookups =
          <<call.dag_config.nodes[1].function, call.dag_config.nodes[2].function>>

\* The parameter name C11 expects of an edge.
C11_Param(e) ==
    CASE e.targetInput # None -> e.targetInput
      [] e.targetInput = None /\ e.sourceOutput # None -> e.sourceOutput
      [] OTHER -> "value"

\* binds[target][param] exists and is source
BoundTo(binds, target, param, source) ==
    /\ DictHas(binds, target)
    /\ DictHas(DictGet(binds, target), param)
    /\ DictGet(DictGet(binds, target), param) = source

\* C11: for every edge the bound parameter is targetInput if present, else
\* sourceOutput if present, else "value"; once the edge is processed the
\* target's bindings map that parameter to the edge's source, and they still
\* do in the graph handed over unless a later edge names the same target and
\* parameter.
C11_TargetInputFallback ==
    (BuildCalled /\ call.result.kind = "returned")
    => LET edges == call.dag_config.edges
       IN  \A i \in 1..Len(edges) :
             LET e == edges[i]
                 later == \E j \in (i + 1)..Len(edges) :
                             /\ edges[j].target = e.target
                             /\ C11_Param(edges[j]) = C11_Param(e)
             IN  /\ BoundTo(BuildBinds(SubSeq(edges, 1, i), 1, EmptyDict),
                            e.target, C11_Param(e), e.source)
                 /\ ~later => BoundTo(call.result.graph.binds,
                                      e.target, C11_Param(e), e.source)

\* C11's case: an edge without targetInput and with sourceOutput was built
\* into a binding of the parameter named by sourceOutput.
C11_Witness ==
    /\ BuildCalled
    /\ call.result.kind = "returned"
    /\ \E i \in 1..Len(call.dag_config.edges) :
          LET e == call.dag_config.edges[i]
          IN  /\ e.targetInput = None
              /\ e.sourceOutput = "sum"
              /\ e.source # e.target
              /\ BoundTo(call.result.graph.binds, e.target, "sum", e.source)

\* C17: json_to_dag leaves the registry as it found it, whether it returns a
\* graph or raises, and a build that raises hands no graph to the caller.
C17_BuildLeavesRegistry ==
    [][(Idle /\ call'.op = "json_to_dag")
       => /\ functions' = functions
          /\ metadata' = metadata
          /\ (call'.result.kind # "returned") => (call'.result.graph = NoGraph)]_vars

\* C17's case: a build that looked up both nodes' functions and then failed
\* in the DAG constructor, with the fixture's registry still in place.
C17_Witness ==
    /\ BuildCalled
    /\ Len(call.result.lookups) = 2
    /\ call.result.kind = "ValueError"
    /\ call.result.msg[1] = "Error creating DAG: "
    /\ call.result.graph = NoGraph
    /\ functions = <<<<"add", "f_add">>, <<"multiply", "f_mul">>>>

\* C19: the callable of each node of a kept graph is the one that was
\* registered under the node's function name when json_to_dag ran, whatever
\* register(override=True) and unregister have done to the registry since.
C19_CallableFixedAtBuild ==
    \A i \in 1..Len(kept_dag.nodes) :
        (\A j \in (i + 1)..Len(kept_dag.nodes) : kept_dag.nodes[j].id # kept_dag.nodes[i].id)
        => /\ DictHas(kept_dag.graph.funcs, kept_dag.nodes[i].id)
           /\ NodeCallable(kept_dag, functions, kept_dag.nodes[i].id)
                = DictGet(kept_dag.fns, kept_dag.nodes[i].function)

\* C19's case: a graph is kept whose node n1 was built from "add" = f_add,
\* and "add" has since been overridden with f_mul, and "multiply", which
\* node n2 was built from, has been unregistered.
C19_Witness ==
    /\ kept_dag.nodes = <<[id |-> "n1", function |-> "add"],
                     [id |-> "n2", function |-> "multiply"]>>
    /\ DictGet(kept_dag.fns, "add") = "f_add"
    /\ DictHas(functions, "add")
    /\ DictGet(functions, "add") = "f_mul"
    /\ ~DictHas(functions, "multiply")
    /\ NodeCallable(kept_dag, functions, "n1") = "f_add"
    /\ NodeCallable(kept_dag, functions, "n2") = "f_mul"

\* C20: a built node has the output name its entry gives in output_name, and
\* the node id when the entry gives none.  (Stated as what that takes of
\* json_to_dag: an output name given in the description is among the names
\* handed to the DAG constructor.)
C20_OutputNameKept ==
    (BuildCalled /\ call.result.kind = "returned")
    => \A i \in 1..Len(call.dag_config.nodes) :
          LET node == call.dag_config.nodes[i]
              given == IF "output_name" \in DOMAIN node
                       THEN node.output_name ELSE None
          IN  /\ node.id \in HandedOver(call.result.graph)
              /\ given # None => given \in HandedOver(call.result.graph)

----------------------------------------------------------------------------
(* Properties of execute_from_config and validate_dag *)

ExecuteCalled == call.op = "execute_from_config"

ValidateCalled == call.op = "validate_dag"

\* the name field of the description, "unnamed" when it is absent
ExpectedDagName ==
    IF call.dag_config.name = None THEN "unnamed" ELSE call.dag_config.name

\* C15: execute_from_config raises nothing: it returns {status: "success",
\* result, dag_name} when the build and the execution both succeed and
\* {status: "error", error: <message>, dag_name} when either fails, with
\* dag_name the description's name or "unnamed".
C15_AlwaysTaggedResult ==
    ExecuteCalled
    => LET r == call.response
           succeeded == /\ call.result.kind = "returned"
                        /\ call.call_outcome = "returns"
       IN  /\ r.kind = "returned"
           /\ r.dag_name = ExpectedDagName
           /\ succeeded => /\ r.keys = {"status", "result", "dag_name"}
                           /\ r.status = "success"
                           /\ r.result = DagValue
           /\ ~succeeded => /\ r.keys = {"status", "error", "dag_name"}
                            /\ r.status = "error"
                            /\ r.error # <<>>

\* C15's case: the graph was built, dag(**inputs) raised, and the nameless
\* description's outcome is tagged "error" under the name "unnamed".
C15_Witness ==
    /\ ExecuteCalled
    /\ call.dag_config.name = None
    /\ call.result.kind = "returned"
    /\ call.call_outcome = "raises"
    /\ call.response.status = "error"
    /\ call.response.dag_name = "unnamed"
    /\ call.response.error = <<"DAG execution failed: ", "str(e)">>

\* C16: validate_dag answers "valid" exactly when json_to_dag returns a graph
\* and "invalid" with json_to_dag's message exactly when it raises, always
\* with dag_name, and it never calls the graph it built.
C16_ValidateNeverExecutes ==
    ValidateCalled
    => LET r == call.response
       IN  /\ r.kind = "returned"
           /\ r.status \in {"valid", "invalid"}
           /\ (r.status = "valid") <=> (call.result.kind = "returned")
           /\ (r.status = "invalid") => /\ "error" \in r.keys
                                        /\ r.error = call.result.msg
                                        /\ r.error # <<>>
           /\ (r.status = "valid") => "error" \notin r.keys
           /\ "dag_name" \in r.keys
           /\ r.dag_name = ExpectedDagName
           /\ r.dag_calls = 0

\* C16's case: a description with two nodes and an edge validated as valid.
C16_Witness ==
    /\ ValidateCalled
    /\ Len(call.dag_config.nodes) = 2
    /\ call.dag_config.edges # <<>>
    /\ call.result.graph.binds # EmptyDict
    /\ call.response.status = "valid"
    /\ call.response.dag_calls = 0

----------------------------------------------------------------------------
(* The params field of a description *)

\* descriptions with and without literal overrides
ParamConfigs ==
    [name : {None}, has_nodes : {TRUE},
     nodes : SeqsUpTo(NodeEntries, MaxNodes),
     edges : SeqsUpTo(SimpleEdges, MaxEdges),
     params : ParamsValues]

\* DAGService.execute_from_config(dag_config, inputs), dag_config with params
ExecuteParams ==
    /\ Idle
    /\ UNCHANGED <<kept_dag, requests>>
    /\ \E dag_config \in ParamConfigs, inputs \in InputsValues,
          dag_outcome \in DAGOutcomes, call_outcome \in CallOutcomes :
        /\ call' = [NoCall EXCEPT
                       !.op = "execute_from_config",
                       !.dag_config = dag_config,
                       !.inputs = inputs,
                       !.dag_outcome = dag_outcome,
                       !.call_outcome = call_outcome,
                       !.result = JsonToDag(functions, dag_config, dag_outcome),
                       !.response = ExecuteFromConfig(functions, dag_config, inputs,
                                                      dag_outcome, call_outcome)]
        /\ UNCHANGED <<functions, metadata>>

NextParams == Register \/ Unregister \/ ExecuteParams \/ Return

\* the registry, and executions of descriptions that carry params
SpecParams == Init /\ [][NextParams]_vars

\* C22: the params field has no influence on build or execution: the same
\* description with any other params value fails to build with the same error
\* or hands the same functions and bindings to DAG, and execute_from_config
\* answers the same for the same inputs.
C22_ParamsIgnored ==
    ExecuteCalled =>
        \A params \in ParamsValues :
            LET other == [call.dag_config EXCEPT !.params = params]
            IN  /\ JsonToDag(functions, other, call.dag_outcome) = call.result
                /\ ExecuteFromConfig(functions, other, call.inputs,
                                     call.dag_outcome, call.call_outcome)
                   = call.response

\* a description with params was built and executed
C22_Witness ==
    /\ ExecuteCalled
    /\ call.dag_config.params # EmptyDict
    /\ call.result.kind = "returned"
    /\ call.result.graph.binds # EmptyDict
    /\ call.response.status = "success"

----------------------------------------------------------------------------
(* The registry on its own *)

\* FunctionRegistry.register(name, func, override=override) with any object,
\* among them one whose metadata cannot be extracted
RegisterAny ==
    /\ Idle
    /\ UNCHANGED <<kept_dag, requests>>
    /\ \E name \in FuncNames, func \in Callables \cup Unsigned, override \in BOOLEAN :
        LET done == RegisterCall(functions, metadata, name, func, override)
        IN  /\ functions' = done.functions
            /\ metadata' = done.metadata
            /\ call' = [NoCall EXCEPT !.op = "register", !.name = name,
                                      !.func = func, !.override = override,
                                      !.result = done.result]

\* FunctionRegistry.get_function(name)
GetFunctionCall ==
    /\ Idle
    /\ \E name \in FuncNames :
        call' = [NoCall EXCEPT !.op = "get_function", !.name = name,
                               !.result = GetFunction(functions, name)]
    /\ UNCHANGED <<functions, metadata, kept_dag, requests>>

\* FunctionRegistry.get_metadata(name)
GetMetadataCall ==
    /\ Idle
    /\ \E name \in FuncNames :
        call' = [NoCall EXCEPT !.op = "get_metadata", !.name = name,
                               !.result = GetMetadata(metadata, name)]
    /\ UNCHANGED <<functions, metadata, kept_dag, requests>>

NextRegistry ==
    RegisterAny \/ Unregister \/ GetFunctionCall \/ GetMetadataCall \/ Return

\* a FunctionRegistry and its callers
SpecRegistry == Init /\ [][NextRegistry]_vars

\* the call made in this step
Calls(op) == Idle /\ call'.op = op

\* C24: register(name, func) without override on a registered name raises
\* ValueError ("already registered") and leaves the registry unchanged:
\* get_function(name) and get_metadata(name) answer as before.
C24_DuplicateRejected ==
    [][(Calls("register") /\ DictHas(functions, call'.name) /\ ~call'.override)
        => /\ call'.result = Raised("ValueError",
                                    AlreadyRegisteredMsg(call'.name), <<>>)
           /\ functions' = functions
           /\ metadata' = metadata
           /\ GetFunction(functions', call'.name)
              = GetFunction(functions, call'.name)
           /\ GetMetadata(metadata', call'.name)
              = GetMetadata(metadata, call'.name)]_vars

\* a second registration of a name was refused
C24_Witness ==
    /\ call.op = "register"
    /\ ~call.override
    /\ call.result.kind = "ValueError"
    /\ DictHas(functions, call.name)
    /\ DictGet(functions, call.name) # call.func

\* this step is a register(name, ...) that returned
Registered(name) ==
    Calls("register") /\ call'.name = name /\ call'.result.kind = "returned"

\* C25: get_function(name) returns the callable of the most recent successful
\* register for that name (a successful register sets it, nothing else
\* brings a callable in or changes it), and get_metadata(name) describes that
\* same callable.
C25_LatestRegistration ==
    [][\A name \in FuncNames :
        LET got == GetFunction(functions', name)
        IN  got.kind = "returned" =>
              /\ Registered(name) => got.value = call'.func
              /\ ~Registered(name) => GetFunction(functions, name) = got
              /\ GetMetadata(metadata', name).kind = "returned"
              /\ GetMetadata(metadata', name).value
                 = ExtractMetadata(name, got.value)]_vars

\* C26: unregister(name) on a registered name removes it (list_functions lacks
\* it, get_function and get_metadata raise KeyError) and leaves every other
\* name as it was; unregister, get_function and get_metadata on a name that
\* is not registered raise KeyError and leave the registry unchanged.
C26_UnregisterRemoves ==
    [][/\ (Calls("unregister") /\ DictHas(functions, call'.name))
          => /\ \A i \in 1..Len(functions') :
                    ListFunctions(functions')[i] # call'.name
             /\ GetFunction(functions', call'.name).kind = "KeyError"
             /\ GetMetadata(metadata', call'.name).kind = "KeyError"
             /\ \A other \in FuncNames \ {call'.name} :
                    /\ GetFunction(functions', other) = GetFunction(functions, other)
                    /\ GetMetadata(metadata', other) = GetMetadata(metadata, other)
       /\ (/\ \/ Calls("unregister")
              \/ Calls("get_function")
              \/ Calls("get_metadata")
           /\ ~DictHas(functions, call'.name))
          => /\ call'.result.kind = "KeyError"
             /\ functions' = functions
             /\ metadata' = metadata]_vars

\* a name was unregistered while another one stayed registered
C26_Witness ==
    /\ call.op = "unregister"
    /\ call.result.kind = "returned"
    /\ ~DictHas(functions, call.name)
    /\ functions # EmptyDict

\* C28: the names of the function table are the names of the metadata table:
\* list_functions() and the keys of get_all_metadata() agree.
C28_TablesAgree ==
    {ListFunctions(functions)[i] : i \in 1..Len(functions)}
    = DictKeys(GetAllMetadata(metadata))

----------------------------------------------------------------------------
(* Several edges into one parameter *)

\* two resolvable nodes and up to MaxBindEdges edges between them
EdgeConfigs ==
    [name : {None}, has_nodes : {TRUE},
     nodes : {<<[id |-> "n1", function |-> "add"],
                [id |-> "n2", function |-> "multiply"]>>},
     edges : SeqsUpTo(EdgeEntries, MaxBindEdges),
     params : {EmptyDict}]

\* DAGService.json_to_dag(dag_config) on a description with several edges
BuildEdges ==
    /\ Idle
    /\ UNCHANGED <<kept_dag, requests>>
    /\ \E dag_config \in EdgeConfigs, dag_outcome \in DAGOutcomes :
        /\ call' = [NoCall EXCEPT !.op = "json_to_dag",
                                  !.dag_config = dag_config,
                                  !.dag_outcome = dag_outcome,
                                  !.result = JsonToDag(functions, dag_config, dag_outcome)]
        /\ functions' = RegistryAfterBuild(functions, dag_config)
        /\ UNCHANGED metadata

NextEdges == BuildEdges \/ Return

\* the builder on descriptions with several edges
SpecEdges == Init /\ [][NextEdges]_vars

\* the keys of dict d are pairwise different
UniqueKeys(d) == \A i, j \in 1..Len(d) : d[i][1] = d[j][1] => i = j

\* C29: the bindings handed to DAG hold at most one source per target node
\* and parameter; of the edges that name the same target and parameter the
\* last one of the edges sequence gives the source, and json_to_dag reports
\* no error for the earlier ones.
C29_LastEdgeWins ==
    BuildCalled =>
        LET edges == call.dag_config.edges
            binds == call.result.graph.binds
        IN  /\ call.result.kind = "ValueError" => call.dag_outcome = "raises"
            /\ call.result.kind = "returned" =>
                 /\ UniqueKeys(binds)
                 /\ \A t \in 1..Len(binds) : UniqueKeys(binds[t][2])
                 /\ \A j \in 1..Len(edges) :
                      (\A k \in (j + 1)..Len(edges) :
                          \/ edges[k].target # edges[j].target
                          \/ TargetInput(edges[k]) # TargetInput(edges[j]))
                      => DictGet(DictGet(binds, edges[j].target),
                                 TargetInput(edges[j])) = edges[j].source

\* two edges with different sources into the same parameter of the same
\* target were built; the second one's source is bound
C29_Witness ==
    /\ BuildCalled
    /\ call.result.kind = "returned"
    /\ Len(call.dag_config.edges) = 2
    /\ LET e1 == call.dag_config.edges[1]
           e2 == call.dag_config.edges[2]
       IN  /\ e1.target = e2.target
           /\ TargetInput(e1) = TargetInput(e2)
           /\ e1.source # e2.source
           /\ BoundTo(call.result.graph.binds, e2.target, TargetInput(e2), e2.source)

----------------------------------------------------------------------------
(* SchemaGenerator.function_to_schema *)

\* inspect.Parameter.empty
Empty == "inspect.Parameter.empty"

SigParamNames == {"a", "b", "c"}

\* default values of parameters, as Python literals; None is Python's None
DefaultValues == {None, "0", "False", "''", "'default'"}

\* the parameters of Sig(func): sig.names in order, with param.default
Signatures ==
    {sig \in SeqsUpTo([name : SigParamNames, default : DefaultValues \cup {Empty}],
                      MaxParams) :
        \A i, j \in 1..Len(sig) : sig[i].name = sig[j].name => i = j}

\* SchemaGenerator.get_default_value(param)
GetDefaultValue(param) ==
    IF param.default # Empty THEN param.default ELSE None

\* The loop over sig.names (lines 99-120), from parameter i on; the
\* parameters carry no annotation, so param_type stays "string".
RECURSIVE SchemaParams(_, _, _, _)
SchemaParams(sig, i, properties, required) ==
    IF i > Len(sig)
    THEN [properties |-> properties, required |-> required]
    ELSE LET param_name == sig[i].name
             default == GetDefaultValue(sig[i])
             prop_schema == <<<<"type", "string">>>>
         IN  IF default # None
             THEN SchemaParams(sig, i + 1,
                               DictSet(properties, param_name,
                                       DictSet(prop_schema, "default", default)),
                               required)
             ELSE SchemaParams(sig, i + 1,
                               DictSet(properties, param_name, prop_schema),
                               Append(required, param_name))

\* function_to_schema(func): the "properties" and "required" of the schema
FunctionToSchema(sig) == SchemaParams(sig, 1, EmptyDict, <<>>)

\* func_to_schema(func), func with signature sig
FuncToSchema ==
    /\ Idle
    /\ \E sig \in Signatures :
        call' = [NoCall EXCEPT !.op = "func_to_schema", !.func = sig,
                               !.result = [kind |-> "returned", msg |-> <<>>,
                                           graph |-> NoGraph, lookups |-> <<>>,
                                           value |-> FunctionToSchema(sig)]]
    /\ UNCHANGED <<functions, metadata, kept_dag, requests>>

NextSchema == FuncToSchema \/ Return

\* callers of func_to_schema
SpecSchema == Init /\ [][NextSchema]_vars

\* C27: a parameter is listed in "required" if and only if it has no default,
\* and every parameter that has a default has it under "default" in its
\* property schema (None, 0, False and "" included).
C27_RequiredIffNoDefault ==
    call.op = "func_to_schema" =>
        LET sig == call.func
            schema == call.result.value
        IN  \A i \in 1..Len(sig) :
              LET prop_schema == DictGet(schema.properties, sig[i].name)
              IN  /\ (\E k \in 1..Len(schema.required) :
                          schema.required[k] = sig[i].name)
                     <=> sig[i].default = Empty
                  /\ sig[i].default # Empty =>
                        /\ DictHas(prop_schema, "default")
                        /\ DictGet(prop_schema, "default") = sig[i].default

----------------------------------------------------------------------------
(* Several execute_from_config calls at the same time *)

\* descriptions of the concurrent calls: no node or one node
ConcConfigs ==
    [name : {None}, has_nodes : {TRUE},
     nodes : SeqsUpTo(NodeEntries, 1),
     edges : {<<>>}, params : {EmptyDict}]

\* a registry that holds add alone, so that "multiply" does not resolve
InitConc ==
    /\ functions = <<<<"add", "f_add">>>>
    /\ metadata = <<<<"add", ExtractMetadata("add", "f_add")>>>>
    /\ call = NoCall
    /\ kept_dag = NoDag
    /\ requests = NoRequests

\* the graph a call executes, read from an attribute of the shared service
\* that any call in progress may have set
DagOfCallShared(reqs, r) ==
    IF \E o \in ReqIds \ {r} : reqs[o].pc # "idle" /\ reqs[o].dag.kind = "returned"
    THEN reqs[CHOOSE o \in ReqIds \ {r} :
                 reqs[o].pc # "idle" /\ reqs[o].dag.kind = "returned"].dag.graph
    ELSE reqs[r].dag.graph

\* The graph call r executes: its local variable `dag` (line 166).
DagOfCall(reqs, r) == reqs[r].dag.graph

\* POST /dag/execute: a caller enters execute_from_config(dag_config, inputs)
Receive ==
    \E r \in ReqIds :
        /\ requests[r].pc = "idle"
        /\ \E dag_config \in ConcConfigs, inputs \in InputsValues,
              dag_outcome \in DAGOutcomes, call_outcome \in CallOutcomes :
            requests' = [requests EXCEPT ![r] =
                            [NoRequest EXCEPT !.pc = "json_to_dag",
                                              !.dag_config = dag_config,
                                              !.inputs = inputs,
                                              !.dag_outcome = dag_outcome,
                                              !.call_outcome = call_outcome]]
        /\ UNCHANGED <<functions, metadata, call, kept_dag>>

\* dag = self.json_to_dag(dag_config) (line 166); a ValueError is caught and
\* answered (lines 173-179)
StepBuild ==
    \E r \in ReqIds :
        /\ requests[r].pc = "json_to_dag"
        /\ LET q == requests[r]
               built == JsonToDag(functions, q.dag_config, q.dag_outcome)
           IN  requests' = [requests EXCEPT ![r] =
                   IF built.kind # "returned"
                   THEN [q EXCEPT !.pc = "done", !.dag = built,
                                  !.response =
                                      Response({"status", "error", "dag_name"},
                                               "error", None, built.msg,
                                               DagName(q.dag_config), 0)]
                   ELSE [q EXCEPT !.pc = "execute_dag", !.dag = built]]
        /\ UNCHANGED <<functions, metadata, call, kept_dag>>

\* result = self.execute_dag(dag, inputs) and the answer (lines 167-179)
StepExecute ==
    \E r \in ReqIds :
        /\ requests[r].pc = "execute_dag"
        /\ LET q == requests[r]
               dag == DagOfCall(requests, r)
               ran == ExecuteDag(dag, q.inputs, q.call_outcome)
           IN  requests' = [requests EXCEPT ![r] =
                   [q EXCEPT
                      !.pc = "done",
                      !.called = [dag |-> dag, inputs |-> q.inputs, made |-> TRUE],
                      !.response =
                          IF ran.kind # "returned"
                          THEN Response({"status", "error", "dag_name"}, "error",
                                        None, ran.msg, DagName(q.dag_config),
                                        ran.dag_calls)
                          ELSE Response({"status", "result", "dag_name"}, "success",
                                        ran.value, <<>>, DagName(q.dag_config),
                                        ran.dag_calls)]]
        /\ UNCHANGED <<functions, metadata, call, kept_dag>>

\* the caller has its answer
Reply ==
    \E r \in ReqIds :
        /\ requests[r].pc = "done"
        /\ requests' = [requests EXCEPT ![r] = NoRequest]
        /\ UNCHANGED <<functions, metadata, call, kept_dag>>

NextConc == Receive \/ StepBuild \/ StepExecute \/ Reply

\* callers of execute_from_config that share one service and one registry,
\* which nobody changes meanwhile
SpecConc == InitConc /\ [][NextConc]_vars

\* C23: however the calls interleave, each answers what it answers when run
\* alone on the same registry, and the graph and inputs it passes to
\* dag(**inputs) are the ones built from its own description and given to it.
C23_CallsIsolated ==
    \A r \in ReqIds :
        LET q == requests[r]
            built == JsonToDag(functions, q.dag_config, q.dag_outcome)
        IN  q.pc = "done" =>
              /\ q.response = ExecuteFromConfig(functions, q.dag_config, q.inputs,
                                                q.dag_outcome, q.call_outcome)
              /\ q.called.made <=> built.kind = "returned"
              /\ q.called.made =>
                    /\ q.called.dag = built.graph
                    /\ q.called.inputs = q.inputs

\* one call has run its graph while another call with a different graph and
\* different inputs was in progress
C23_Witness ==
    /\ requests["r1"].pc = "done"
    /\ requests["r1"].called.made
    /\ requests["r1"].response.status = "success"
    /\ requests["r2"].pc = "execute_dag"
    /\ requests["r2"].dag.graph # requests["r1"].dag.graph
    /\ requests["r2"].inputs # requests["r1"].inputs

====
